---- MODULE Spec2Model ----
(***************************************************************************)
(* Model of updown/modules/constraint.py: the transition tensor            *)
(* (_CBSMatrix), the phrase automaton builder                              *)
(* (CBSConstraint.get_state_matrix) and the null automaton builder         *)
(* (FreeConstraint.get_state_matrix).                                      *)
(*                                                                         *)
(* A tensor of shape [1][N][N][V] with 0/1 entries is represented by its   *)
(* size N, its vocabulary size V and the set `ones` of the triples         *)
(* <<from_state, to_state, token>> whose entry is 1.  Arrays live in a     *)
(* heap and are held by reference, as numpy arrays are.                    *)
(***************************************************************************)
EXTENDS Integers, Sequences, FiniteSets, TLC

\* ------------------------------------------------------------------ bounds
\* Longest list of ranked detections of one image.
MaxAnns == 4
\* Image ids are 1..MaxImageId.
MaxImageId == 2

\* ------------------------------------------- tables loaded at construction
\* The vocabulary: position k (0-based) of this list is token index k.
index_to_token ==
    << "@@PADDING@@", "@@UNKNOWN@@", "dog", "dogs", "table", "stove",
       "wood", "burning", "bed", "salt", "and", "pepper" >>

vocab_size == Len(index_to_token)

Tokens == 0 .. (vocab_size - 1)

\* Vocabulary.get_token_index: the index of a known word, the index of the
\* out-of-vocabulary token for any other word.
get_token_index(w) ==
    IF \E k \in 1 .. Len(index_to_token) : index_to_token[k] = w
    THEN (CHOOSE k \in 1 .. Len(index_to_token) : index_to_token[k] = w) - 1
    ELSE (CHOOSE k \in 1 .. Len(index_to_token) :
              index_to_token[k] = "@@UNKNOWN@@") - 1

_pad_index == get_token_index("@@UNKNOWN@@")

\* Open Images class list: the index of a class is its class id, and the
\* zero-th element is the background.
oi_class_list ==
    [c \in 0 .. 10 |->
        CASE c = 0 -> "__background__"
          [] c = 1 -> "Dog"
          [] c = 2 -> "Table"
          [] c = 3 -> "Kitchen & dining room table"
          [] c = 4 -> "Bed"
          [] c = 5 -> "Wood-burning stove"
          [] c = 6 -> "Dog bed"
          [] c = 7 -> "Gnocchi"
          [] c = 8 -> "Salt and pepper shakers"
          [] c = 9 -> "Dog bed and table"
          [] c = 10 -> "Table gnocchi"]

ClassIds == DOMAIN oi_class_list \ {0}

\* str.lower on the class names of oi_class_list.
lower(name) ==
    CASE name = "__background__" -> "__background__"
      [] name = "Dog" -> "dog"
      [] name = "Table" -> "table"
      [] name = "Kitchen & dining room table" -> "kitchen & dining room table"
      [] name = "Bed" -> "bed"
      [] name = "Wood-burning stove" -> "wood-burning stove"
      [] name = "Dog bed" -> "dog bed"
      [] name = "Gnocchi" -> "gnocchi"
      [] name = "Salt and pepper shakers" -> "salt and pepper shakers"
      [] name = "Dog bed and table" -> "dog bed and table"
      [] name = "Table gnocchi" -> "table gnocchi"

replacements ==
    [k \in { "band-aid", "wood-burning stove", "kitchen & dining room table",
             "salt and pepper shakers", "power plugs and sockets",
             "luggage and bags" } |->
        CASE k = "band-aid" -> "bandaid"
          [] k = "wood-burning stove" -> "wood burning stove"
          [] k = "kitchen & dining room table" -> "table"
          [] k = "salt and pepper shakers" -> "salt and pepper"
          [] k = "power plugs and sockets" -> "power plugs"
          [] k = "luggage and bags" -> "luggage"]

\* str.split on the candidate texts that the class list can produce.
split(text) ==
    CASE text = "dog" -> << "dog" >>
      [] text = "table" -> << "table" >>
      [] text = "bed" -> << "bed" >>
      [] text = "gnocchi" -> << "gnocchi" >>
      [] text = "dog bed" -> << "dog", "bed" >>
      [] text = "table gnocchi" -> << "table", "gnocchi" >>
      [] text = "wood burning stove" -> << "wood", "burning", "stove" >>
      [] text = "salt and pepper" -> << "salt", "and", "pepper" >>
      [] text = "dog bed and table" -> << "dog", "bed", "and", "table" >>
      [] text = "__background__" -> << "__background__" >>
      [] text = "bandaid" -> << "bandaid" >>
      [] text = "power plugs" -> << "power", "plugs" >>
      [] text = "luggage" -> << "luggage" >>

\* The word-form table read from oi_word_form_path: "doggo" and both forms
\* of "gnocchi" are not in the vocabulary; words without an entry ("table",
\* "bed", ...) stand for themselves.
oi_word_form ==
    [k \in { "dog", "stove", "gnocchi" } |->
        CASE k = "dog" -> << "dog", "dogs", "doggo" >>
          [] k = "stove" -> << "stove" >>
          [] k = "gnocchi" -> << "gnocchi", "gnocco" >>]

\* ------------------------------------------------------------- _CBSMatrix
\* Mutant of init_matrix: the state dimensions take the vocabulary size.
init_matrix_vocab_states(state_size, vsize) ==
    [size |-> vsize, vocab |-> vsize, ones |-> {}]

\* np.zeros((1, state_size, state_size, vocab_size)).
init_matrix(state_size, vsize) ==
    [size |-> state_size, vocab |-> vsize, ones |-> {}]

\* Mutant of init_row: the slice starts at token 1.
init_row_from_token_one(arr, state_index) ==
    [arr EXCEPT !.ones = @ \cup { << state_index, state_index, w >> :
                                     w \in 1 .. (arr.vocab - 1) }]

\* self._matrix[0, state_index, state_index, :] = 1
init_row(arr, state_index) ==
    [arr EXCEPT !.ones = @ \cup { << state_index, state_index, w >> :
                                     w \in 0 .. (arr.vocab - 1) }]

\* One pass of the loop body of add_connect: the entry [from][to][w] is set
\* first, the entry [from][from][w] is cleared second.
\* Mutant of connect_one: the self-loop of the source state is left in place.
connect_one_keep_loop(ones, from_state, to_state, w_index) ==
    ones \cup { << from_state, to_state, w_index >> }

connect_one(ones, from_state, to_state, w_index) ==
    (ones \cup { << from_state, to_state, w_index >> })
        \ { << from_state, from_state, w_index >> }

RECURSIVE connect_all(_, _, _, _)
connect_all(ones, from_state, to_state, w_group) ==
    IF w_group = << >> THEN ones
    ELSE connect_all(connect_one(ones, from_state, to_state, Head(w_group)),
                     from_state, to_state, Tail(w_group))

add_connect(arr, from_state, to_state, w_group) ==
    [arr EXCEPT !.ones = connect_all(@, from_state, to_state, w_group)]

\* numpy raises IndexError on the first assignment of the loop when an index
\* is outside the array; an empty w_group never indexes the array.
add_connect_raises(arr, from_state, to_state, w_group) ==
    /\ w_group # << >>
    /\ \/ from_state >= arr.size
       \/ to_state >= arr.size
       \/ \E k \in 1 .. Len(w_group) : w_group[k] >= arr.vocab

\* ---------------------------------------------------------- CBSConstraint
\* Mutant of get_word_set: the index of "@@UNKNOWN@@" is not filtered out.
get_word_set_unfiltered(target) ==
    LET group_w == IF target \in DOMAIN oi_word_form
                   THEN oi_word_form[target]
                   ELSE << target >>
    IN  [k \in 1 .. Len(group_w) |-> get_token_index(group_w[k])]

get_word_set(target) ==
    LET group_w == IF target \in DOMAIN oi_word_form
                   THEN oi_word_form[target]
                   ELSE << target >>
        indices == [k \in 1 .. Len(group_w) |-> get_token_index(group_w[k])]
    IN  SelectSeq(indices, LAMBDA v : ~(v = _pad_index))

Contains(seq, x) == \E k \in 1 .. Len(seq) : seq[k] = x

\* anns[: self.topk]
Slice(anns, k) == SubSeq(anns, 1, IF Len(anns) < k THEN Len(anns) ELSE k)

\* The candidate loop: lower-case the class name, apply the replacements,
\* keep the text unless it is already a candidate.
RECURSIVE collect_candidates(_, _)
collect_candidates(candidates, anns) ==
    IF anns = << >> THEN candidates
    ELSE LET text0 == lower(oi_class_list[Head(anns)])
             text == IF text0 \in DOMAIN replacements
                     THEN replacements[text0] ELSE text0
         IN  collect_candidates(
                 IF Contains(candidates, text) THEN candidates
                 ELSE Append(candidates, text),
                 Tail(anns))

\* The default of the constructor parameter topk.
topk_default == 3

\* The values of topk explored: the default, for which the lattice of eight
\* fixed states is made, and one above it.
TopkValues == { topk_default, topk_default + 1 }

state_size == 26

first_additional_index == 8

terminal_state == 7

\* Mutant of level_mapping: candidate 0 leads from state 2 to state 5.
level_mapping_misrouted ==
    [k \in 0 .. 2 |->
        CASE k = 0 -> (3 :> 5) @@ (2 :> 5)
          [] k = 1 -> (1 :> 6) @@ (3 :> 4)
          [] k = 2 -> (1 :> 5) @@ (2 :> 4)]

\* Mutant of level_mapping: candidate 0 leads from state 3 to state 6 and
\* from state 2 to state 5.
level_mapping_crossed ==
    [k \in 0 .. 2 |->
        CASE k = 0 -> (3 :> 6) @@ (2 :> 5)
          [] k = 1 -> (1 :> 6) @@ (3 :> 4)
          [] k = 2 -> (1 :> 5) @@ (2 :> 4)]

level_mapping ==
    [k \in 0 .. 2 |->
        CASE k = 0 -> (3 :> 5) @@ (2 :> 6)
          [] k = 1 -> (1 :> 6) @@ (3 :> 4)
          [] k = 2 -> (1 :> 5) @@ (2 :> 4)]

\* ------------------------------------------------------------------ state
Threads == { "t1", "t2" }

VARIABLES
    topk,   \* CBSConstraint.topk
    M,      \* M[b]: the array self.M._matrix of builder b refers to, 0 = None
    heap,   \* the arrays created so far; an array reference is its position
    th      \* th[t]: the frame of thread t's get_state_matrix call

vars == << topk, M, heap, th >>

Builders == { "cbs", "free" }

idle_frame ==
    [pc |-> "idle", kind |-> "none", image_id |-> 0, candidates |-> << >>,
     i |-> 0, j |-> 0, start_additional_index |-> 0, ret |-> << >>,
     connects |-> << >>, err |-> "none"]

off_frame == [idle_frame EXCEPT !.pc = "off"]

AnnSeqs == UNION { [1 .. n -> ClassIds] : n \in 0 .. MaxAnns }

ImageIds == 1 .. MaxImageId

\* FreeConstraint is constructed with the size of the same vocabulary.
output_size == vocab_size

Init ==
    /\ topk \in TopkValues
    /\ M = [b \in Builders |-> 0]
    /\ heap = << >>
    /\ th = [t \in Threads |-> IF t = "t1" THEN idle_frame ELSE off_frame]

\* Two threads share one CBSConstraint and one FreeConstraint instance:
\* thread t2 has entered CBSConstraint.get_state_matrix for an image whose
\* only detection is a Dog (class 1), thread t1 may make any call.
InitConc ==
    /\ topk = 1
    /\ M = [b \in Builders |-> 0]
    /\ heap = << >>
    /\ th = [t \in Threads |->
                IF t = "t1" THEN idle_frame
                ELSE [idle_frame EXCEPT
                         !.pc = "L177", !.kind = "cbs",
                         !.candidates =
                             collect_candidates(<< >>, Slice(<< 1 >>, 1))]]

\* ------------------------------------------------ frame-local shorthands
target(t) == th[t].candidates[th[t].i + 1]

word_list(t) == split(target(t))

\* group_w of the one-word branch.
group_w(t) == get_word_set(target(t))

\* Mutant of group_s: every word of the phrase resolves as its first word.
group_s_first(t, k) == get_word_set(word_list(t)[1])

\* group_s1, group_s2, group_s3 of the two- and three-word branches.
group_s(t, k) == get_word_set(word_list(t)[k])

raise(t, exception) ==
    /\ th' = [th EXCEPT ![t].pc = "raised", ![t].err = exception]
    /\ UNCHANGED << topk, M, heap >>

\* One call self.M.add_connect(from_state, to_state, w_group) by thread t.
\* It acts on the array self.M._matrix refers to when the call is made, and
\* leaves the frame as ok_frame (plus the record of the call) when it
\* returns.
Connect(t, from_state, to_state, w_group, ok_frame) ==
    IF M["cbs"] = 0 THEN raise(t, "AssertionError")
    ELSE IF add_connect_raises(heap[M["cbs"]], from_state, to_state, w_group)
    THEN raise(t, "IndexError")
    ELSE /\ heap' = [heap EXCEPT ![M["cbs"]] =
                         add_connect(@, from_state, to_state, w_group)]
         /\ th' = [th EXCEPT ![t] =
                       [ok_frame EXCEPT !.connects =
                           Append(@, << from_state, to_state, w_group >>)]]
         /\ UNCHANGED << topk, M >>

\* mapping = level_mapping[i], then the first pass of `for j in range(1, 4)`.
Mapping(t, loop_pc) ==
    IF th[t].i \in DOMAIN level_mapping
    THEN /\ th' = [th EXCEPT ![t].pc = loop_pc, ![t].j = 1]
         /\ UNCHANGED << topk, M, heap >>
    ELSE raise(t, "IndexError")

\* The head of `for j in range(1, 4): if j in mapping:`; when the range is
\* exhausted the candidate loop goes on with the next candidate.
ForJ(t, body_pc) ==
    /\ th' = [th EXCEPT ![t] =
                  IF th[t].j > 3
                  THEN [@ EXCEPT !.pc = "L183", !.i = @ + 1, !.j = 0]
                  ELSE IF th[t].j \in DOMAIN level_mapping[th[t].i]
                  THEN [@ EXCEPT !.pc = body_pc]
                  ELSE [@ EXCEPT !.j = @ + 1]]
    /\ UNCHANGED << topk, M, heap >>

RECURSIVE init_rows_from_one(_, _)
\* Mutant of init_rows: range(1, n), row 0 is never initialised.
init_rows_from_one(arr, n) ==
    IF n <= 1 THEN arr ELSE init_row(init_rows_from_one(arr, n - 1), n - 1)

\* Mutant of init_rows: only the eight fixed states get their self-loops.
RECURSIVE init_rows_fixed_only(_, _)
init_rows_fixed_only(arr, n) ==
    IF n = 0 THEN arr
    ELSE IF n > first_additional_index THEN init_rows_fixed_only(arr, n - 1)
    ELSE init_row(init_rows_fixed_only(arr, n - 1), n - 1)

RECURSIVE init_rows(_, _)
\* for i in range(n): self.M.init_row(i)
init_rows(arr, n) ==
    IF n = 0 THEN arr ELSE init_row(init_rows(arr, n - 1), n - 1)

\* ---------------------------------------- CBSConstraint.get_state_matrix
\* The call and the selection of the candidates.  image_id is used only to
\* look up the detections of the image; anns is what that lookup, the
\* filtering, the suppression and the ranking by score leave, and it is the
\* input the model draws.
CallCBS(t) ==
    /\ th[t].pc = "idle"
    /\ \E anns \in AnnSeqs :
           th' = [th EXCEPT ![t] =
                     [idle_frame EXCEPT
                         !.pc = "L177", !.kind = "cbs",
                         !.candidates =
                             collect_candidates(<< >>, Slice(anns, topk))]]
    /\ UNCHANGED << topk, M, heap >>

L177(t) ==
    /\ th[t].pc = "L177"
    /\ heap' = Append(heap, init_matrix(state_size, vocab_size))
    /\ M' = [M EXCEPT !["cbs"] = Len(heap) + 1]
    /\ th' = [th EXCEPT ![t].pc = "L178"]
    /\ UNCHANGED topk

L178(t) ==
    /\ th[t].pc = "L178"
    /\ IF M["cbs"] = 0 THEN raise(t, "AssertionError")
       ELSE /\ heap' = [heap EXCEPT ![M["cbs"]] = init_rows(@, state_size)]
            /\ th' = [th EXCEPT ![t].pc = "L183", ![t].i = 0,
                          ![t].start_additional_index = first_additional_index]
            /\ UNCHANGED << topk, M >>

\* for i, target in enumerate(candidates), and the choice of the branch.
L183(t) ==
    /\ th[t].pc = "L183"
    /\ th' = [th EXCEPT ![t] =
                  IF th[t].i >= Len(th[t].candidates)
                  THEN [@ EXCEPT !.pc = "L241"]
                  ELSE IF Len(word_list(t)) = 1 THEN [@ EXCEPT !.pc = "L189"]
                  ELSE IF Len(word_list(t)) = 2 THEN [@ EXCEPT !.pc = "L201"]
                  ELSE IF Len(word_list(t)) = 3 THEN [@ EXCEPT !.pc = "L221"]
                  ELSE [@ EXCEPT !.i = @ + 1]]
    /\ UNCHANGED << topk, M, heap >>

L189(t) ==
    /\ th[t].pc = "L189"
    /\ Connect(t, 0, th[t].i + 1, group_w(t), [th[t] EXCEPT !.pc = "L190"])

\* Mutant of L190: the two states of the call are exchanged.
L190_reversed(t) ==
    /\ th[t].pc = "L190"
    /\ Connect(t, terminal_state, th[t].i + 4, group_w(t),
               [th[t] EXCEPT !.pc = "L192"])

L190(t) ==
    /\ th[t].pc = "L190"
    /\ Connect(t, th[t].i + 4, terminal_state, group_w(t),
               [th[t] EXCEPT !.pc = "L192"])

L192(t) ==
    /\ th[t].pc = "L192"
    /\ Mapping(t, "L193")

L193(t) ==
    /\ th[t].pc = "L193"
    /\ ForJ(t, "L195")

L195(t) ==
    /\ th[t].pc = "L195"
    /\ Connect(t, th[t].j, level_mapping[th[t].i][th[t].j], group_w(t),
               [th[t] EXCEPT !.pc = "L193", !.j = @ + 1])

L241(t) ==
    /\ th[t].pc = "L241"
    /\ th' = [th EXCEPT ![t].pc = "done",
                  ![t].ret = << M["cbs"], th[t].start_additional_index,
                                Len(th[t].candidates) >>]
    /\ UNCHANGED << topk, M, heap >>

\* The two-word branch.
L201(t) ==
    /\ th[t].pc = "L201"
    /\ Connect(t, 0, th[t].start_additional_index, group_s(t, 1),
               [th[t] EXCEPT !.pc = "L202"])

\* Mutant of L202: the auxiliary index is not advanced after the chain.
L202_noinc(t) ==
    /\ th[t].pc = "L202"
    /\ Connect(t, th[t].start_additional_index, th[t].i + 1, group_s(t, 2),
               [th[t] EXCEPT !.pc = "L205"])

L202(t) ==
    /\ th[t].pc = "L202"
    /\ Connect(t, th[t].start_additional_index, th[t].i + 1, group_s(t, 2),
               [th[t] EXCEPT !.pc = "L205", !.start_additional_index = @ + 1])

L205(t) ==
    /\ th[t].pc = "L205"
    /\ Connect(t, th[t].i + 4, th[t].start_additional_index, group_s(t, 1),
               [th[t] EXCEPT !.pc = "L206"])

L206(t) ==
    /\ th[t].pc = "L206"
    /\ Connect(t, th[t].start_additional_index, terminal_state, group_s(t, 2),
               [th[t] EXCEPT !.pc = "L209", !.start_additional_index = @ + 1])

L209(t) ==
    /\ th[t].pc = "L209"
    /\ Mapping(t, "L210")

L210(t) ==
    /\ th[t].pc = "L210"
    /\ ForJ(t, "L212")

L212(t) ==
    /\ th[t].pc = "L212"
    /\ Connect(t, th[t].j, th[t].start_additional_index, group_s(t, 1),
               [th[t] EXCEPT !.pc = "L213"])

L213(t) ==
    /\ th[t].pc = "L213"
    /\ Connect(t, th[t].start_additional_index, level_mapping[th[t].i][th[t].j], group_s(t, 2),
               [th[t] EXCEPT !.pc = "L210", !.start_additional_index = @ + 1, !.j = @ + 1])

\* The three-word branch.
L221(t) ==
    /\ th[t].pc = "L221"
    /\ Connect(t, 0, th[t].start_additional_index, group_s(t, 1),
               [th[t] EXCEPT !.pc = "L222"])

L222(t) ==
    /\ th[t].pc = "L222"
    /\ Connect(t, th[t].start_additional_index, th[t].start_additional_index + 1, group_s(t, 2),
               [th[t] EXCEPT !.pc = "L223"])

\* Mutant of L223: the chain of the three words ends in state i, not i + 1.
L223_off_by_one(t) ==
    /\ th[t].pc = "L223"
    /\ Connect(t, th[t].start_additional_index + 1, th[t].i, group_s(t, 3),
               [th[t] EXCEPT !.pc = "L226", !.start_additional_index = @ + 2])

L223(t) ==
    /\ th[t].pc = "L223"
    /\ Connect(t, th[t].start_additional_index + 1, th[t].i + 1, group_s(t, 3),
               [th[t] EXCEPT !.pc = "L226", !.start_additional_index = @ + 2])

L226(t) ==
    /\ th[t].pc = "L226"
    /\ Connect(t, th[t].i + 4, th[t].start_additional_index, group_s(t, 1),
               [th[t] EXCEPT !.pc = "L227"])

L227(t) ==
    /\ th[t].pc = "L227"
    /\ Connect(t, th[t].start_additional_index, th[t].start_additional_index + 1, group_s(t, 2),
               [th[t] EXCEPT !.pc = "L228"])

\* Mutant of L228: the auxiliary index is not advanced after the chain.
L228_noinc(t) ==
    /\ th[t].pc = "L228"
    /\ Connect(t, th[t].start_additional_index + 1, terminal_state,
               group_s(t, 3), [th[t] EXCEPT !.pc = "L231"])

L228(t) ==
    /\ th[t].pc = "L228"
    /\ Connect(t, th[t].start_additional_index + 1, terminal_state, group_s(t, 3),
               [th[t] EXCEPT !.pc = "L231", !.start_additional_index = @ + 2])

L231(t) ==
    /\ th[t].pc = "L231"
    /\ Mapping(t, "L232")

L232(t) ==
    /\ th[t].pc = "L232"
    /\ ForJ(t, "L234")

L234(t) ==
    /\ th[t].pc = "L234"
    /\ Connect(t, th[t].j, th[t].start_additional_index, group_s(t, 1),
               [th[t] EXCEPT !.pc = "L235"])

L235(t) ==
    /\ th[t].pc = "L235"
    /\ Connect(t, th[t].start_additional_index, th[t].start_additional_index + 1, group_s(t, 2),
               [th[t] EXCEPT !.pc = "L238"])

L238(t) ==
    /\ th[t].pc = "L238"
    /\ Connect(t, th[t].start_additional_index + 1, level_mapping[th[t].i][th[t].j], group_s(t, 3),
               [th[t] EXCEPT !.pc = "L232", !.start_additional_index = @ + 2, !.j = @ + 1])

\* --------------------------------------- FreeConstraint.get_state_matrix
CallFree(t) ==
    /\ th[t].pc = "idle"
    /\ \E image_id \in ImageIds :
           th' = [th EXCEPT ![t] =
                     [idle_frame EXCEPT !.pc = "L249", !.kind = "free",
                                        !.image_id = image_id]]
    /\ UNCHANGED << topk, M, heap >>

L249(t) ==
    /\ th[t].pc = "L249"
    /\ heap' = Append(heap, init_matrix(1, output_size))
    /\ M' = [M EXCEPT !["free"] = Len(heap) + 1]
    /\ th' = [th EXCEPT ![t].pc = "L250"]
    /\ UNCHANGED topk

\* Mutant of L250: the row of state 0 is not initialised.
L250_skip(t) ==
    /\ th[t].pc = "L250"
    /\ th' = [th EXCEPT ![t].pc = "L251"]
    /\ UNCHANGED << topk, M, heap >>

L250(t) ==
    /\ th[t].pc = "L250"
    /\ IF M["free"] = 0 THEN raise(t, "AssertionError")
       ELSE /\ heap' = [heap EXCEPT ![M["free"]] = init_row(@, 0)]
            /\ th' = [th EXCEPT ![t].pc = "L251"]
            /\ UNCHANGED << topk, M >>

L251(t) ==
    /\ th[t].pc = "L251"
    /\ th' = [th EXCEPT ![t].pc = "done", ![t].ret = << M["free"], 1, 0 >>]
    /\ UNCHANGED << topk, M, heap >>

Next ==
    \E t \in Threads :
        \/ CallCBS(t) \/ L177(t) \/ L178(t) \/ L183(t)
        \/ L189(t) \/ L190(t) \/ L192(t) \/ L193(t) \/ L195(t)
        \/ L201(t) \/ L202(t) \/ L205(t) \/ L206(t)
        \/ L209(t) \/ L210(t) \/ L212(t) \/ L213(t)
        \/ L221(t) \/ L222(t) \/ L223(t) \/ L226(t) \/ L227(t) \/ L228(t)
        \/ L231(t) \/ L232(t) \/ L234(t) \/ L235(t) \/ L238(t)
        \/ L241(t)
        \/ CallFree(t) \/ L249(t) \/ L250(t) \/ L251(t)

\* One thread, one call, any topk.
Spec == Init /\ [][Next]_vars

\* Two threads calling the same builder instances, topk = 1.
SpecConc == InitConc /\ [][Next]_vars

\* ---------------------------------------------------------------- reading
\* The result of a call and the automaton the decoder reads in a tensor.
Returned(t, kind) == th[t].pc = "done" /\ th[t].kind = kind

Tensor(t) == heap[th[t].ret[1]]

StateCount(t) == th[t].ret[2]

CandidateCount(t) == th[t].ret[3]

\* The states the automaton can be in after consuming tok in a state of S.
Delta(arr, S, tok) ==
    { tr[2] : tr \in { x \in arr.ones : x[1] \in S /\ x[3] = tok } }

RECURSIVE Run(_, _, _)
Run(arr, S, toks) ==
    IF toks = << >> THEN S
    ELSE Run(arr, Delta(arr, S, Head(toks)), Tail(toks))

\* The states reached from S by token sequences of length at most n.
RECURSIVE Within(_, _, _)
Within(arr, S, n) ==
    IF n = 0 THEN S
    ELSE Within(arr,
                S \cup UNION { Delta(arr, S, tok) : tok \in 0 .. (arr.vocab - 1) },
                n - 1)

\* The states reached from S by any token sequence.
Reachable(arr, S) == Within(arr, S, arr.size)

Range(seq) == { seq[k] : k \in 1 .. Len(seq) }

Words(text) == Len(split(text))

RECURSIVE TotalWords(_)
TotalWords(cands) ==
    IF cands = << >> THEN 0 ELSE Words(Head(cands)) + TotalWords(Tail(cands))

\* Lists of single-word phrases, each with a non-empty word group.
SingleWordList(cands) ==
    \A k \in 1 .. Len(cands) :
        Words(cands[k]) = 1 /\ get_word_set(cands[k]) # << >>

Orders(K) ==
    { p \in [1 .. K -> 1 .. K] : \A a, b \in 1 .. K : p[a] = p[b] => a = b }

\* One token of each candidate's word group, in the order p.
TokenChoices(cands, p) ==
    { toks \in [1 .. Len(cands) -> Tokens] :
        \A k \in 1 .. Len(cands) : toks[k] \in Range(get_word_set(cands[p[k]])) }

\* The fixed state in which all K candidates of a list are satisfied.
AllSatisfied(K) == CASE K = 1 -> 1 [] K = 2 -> 6 [] K = 3 -> 7

\* ------------------------------------------------------------------ C1
\* C1 as stated: for K single-word candidates, 1 <= K <= 3, one token of each
\* candidate in any order drives the automaton from state 0 to state 7, and
\* no shorter token sequence reaches state 7.
C1_Claim ==
    \A t \in Threads :
        ( /\ Returned(t, "cbs")
          /\ Len(th[t].candidates) \in 1 .. 3
          /\ SingleWordList(th[t].candidates) )
        => /\ \A p \in Orders(Len(th[t].candidates)) :
                \A toks \in TokenChoices(th[t].candidates, p) :
                    7 \in Run(Tensor(t), {0}, toks)
           /\ 7 \notin Within(Tensor(t), {0}, Len(th[t].candidates) - 1)

\* C1 amended: one token of each candidate in any order drives the automaton
\* from state 0 to the state in which all K candidates are satisfied, which
\* is state 7 for K = 3, state 6 for K = 2 and state 1 for K = 1; no shorter
\* token sequence reaches that state, and for K < 3 no token sequence
\* reaches state 7.
C1_Amended ==
    \A t \in Threads :
        ( /\ Returned(t, "cbs")
          /\ Len(th[t].candidates) \in 1 .. 3
          /\ SingleWordList(th[t].candidates) )
        => LET K == Len(th[t].candidates) IN
           /\ \A p \in Orders(K) :
                \A toks \in TokenChoices(th[t].candidates, p) :
                    AllSatisfied(K) \in Run(Tensor(t), {0}, toks)
           /\ AllSatisfied(K) \notin Within(Tensor(t), {0}, K - 1)
           /\ K < 3 => 7 \notin Reachable(Tensor(t), {0})

\* A build of three single-word candidates has returned.
C1_Witness ==
    \E t \in Threads :
        /\ Returned(t, "cbs")
        /\ Len(th[t].candidates) = 3
        /\ SingleWordList(th[t].candidates)
        /\ 7 \in Reachable(Tensor(t), {0})

\* ------------------------------------------------------------------ C2
AllSelfLoops(n, v) == { << s, s, w >> : s \in 0 .. (n - 1), w \in 0 .. (v - 1) }

\* C2 as stated: for an empty candidate list the builder returns state
\* count 1 and candidate count 0, and state 0 self-loops on every token.
C2_Claim ==
    \A t \in Threads :
        (Returned(t, "cbs") /\ th[t].candidates = << >>)
        => /\ StateCount(t) = 1
           /\ CandidateCount(t) = 0
           /\ \A w \in Tokens : << 0, 0, w >> \in Tensor(t).ones

\* C2 amended: for an empty candidate list the builder returns state count
\* 8 (the fixed lattice, no auxiliary state) and candidate count 0, with a
\* tensor of 26 states in which every state self-loops on every token and
\* has no other transition.
C2_Amended ==
    \A t \in Threads :
        (Returned(t, "cbs") /\ th[t].candidates = << >>)
        => /\ StateCount(t) = 8
           /\ CandidateCount(t) = 0
           /\ Tensor(t).size = 26
           /\ Tensor(t).ones = AllSelfLoops(26, vocab_size)

\* A build for an empty candidate list has returned.
C2_Witness ==
    \E t \in Threads : Returned(t, "cbs") /\ th[t].candidates = << >>

\* ------------------------------------------------------------------ C3
\* The tokens with which some candidate of the list leaves state 0: those of
\* the first word of every candidate of one to three words.
FirstTokens(cands) ==
    UNION { Range(get_word_set(split(cands[k])[1])) :
              k \in { n \in 1 .. Len(cands) : Words(cands[n]) \in 1 .. 3 } }

\* The two-word candidates of a returned build, with both words known.
TwoWordAt(t) ==
    { k \in 1 .. Len(th[t].candidates) :
        /\ Words(th[t].candidates[k]) = 2
        /\ get_word_set(split(th[t].candidates[k])[1]) # << >>
        /\ get_word_set(split(th[t].candidates[k])[2]) # << >> }

TokenPairs(text) ==
    { ab \in Range(get_word_set(split(text)[1]))
                \X Range(get_word_set(split(text)[2])) : ab[1] # ab[2] }

\* C3 as stated: for a two-word candidate "a b" at index i, token(a) then
\* token(b) from state 0 reaches state i+1, and token(b) alone from state 0
\* does not: the automaton stays in state 0.  (k is i+1.)
C3_Claim ==
    \A t \in Threads :
        Returned(t, "cbs") =>
            \A k \in TwoWordAt(t) :
                \A ab \in TokenPairs(th[t].candidates[k]) :
                    /\ k \in Run(Tensor(t), {0}, << ab[1], ab[2] >>)
                    /\ Run(Tensor(t), {0}, << ab[2] >>) = {0}

\* C3 amended: token(a) then token(b) from state 0 reaches state i+1, and
\* token(b) alone from state 0 does not; it leaves the automaton in state 0
\* unless token(b) is a token of the first word of a candidate of the list.
C3_Amended ==
    \A t \in Threads :
        Returned(t, "cbs") =>
            \A k \in TwoWordAt(t) :
                \A ab \in TokenPairs(th[t].candidates[k]) :
                    /\ k \in Run(Tensor(t), {0}, << ab[1], ab[2] >>)
                    /\ k \notin Run(Tensor(t), {0}, << ab[2] >>)
                    /\ ab[2] \notin FirstTokens(th[t].candidates)
                         => Run(Tensor(t), {0}, << ab[2] >>) = {0}

\* A build with a two-word candidate at index 1, after another candidate,
\* has returned.
C3_Witness ==
    \E t \in Threads :
        /\ Returned(t, "cbs")
        /\ 2 \in TwoWordAt(t)
        /\ \E ab \in TokenPairs(th[t].candidates[2]) :
              2 \in Run(Tensor(t), {0}, << ab[1], ab[2] >>)

\* ------------------------------------------------------------------ C4
RECURSIVE Replay(_, _)
\* The array after the add_connect calls of `calls`, made in order on arr.
Replay(arr, calls) ==
    IF calls = << >> THEN arr
    ELSE Replay(add_connect(arr, Head(calls)[1], Head(calls)[2], Head(calls)[3]),
                Tail(calls))

\* The tensor a call returns when it runs alone: the calls it made, applied
\* to a fresh array of 26 initialised rows.
Alone(t) ==
    Replay(init_rows(init_matrix(state_size, vocab_size), state_size),
           th[t].connects)

RECURSIVE AuxTotal(_)
\* The auxiliary states a call that runs alone consumes: 4 * (W - 1) for every
\* candidate of W words, 1 <= W <= 3, none for any other candidate.
AuxTotal(cands) ==
    IF cands = << >> THEN 0
    ELSE (IF Words(Head(cands)) \in 1 .. 3
          THEN 4 * (Words(Head(cands)) - 1) ELSE 0) + AuxTotal(Tail(cands))

\* C4 as stated: when two get_state_matrix calls interleave on the same
\* builder instance, each call returns exactly the tensor, state count and
\* candidate count it would return if it ran alone.
C4_Claim ==
    \A t \in Threads :
        Returned(t, "cbs") =>
            /\ Tensor(t) = Alone(t)
            /\ StateCount(t) = 8 + AuxTotal(th[t].candidates)
            /\ CandidateCount(t) = Len(th[t].candidates)

\* ------------------------------------------------------------------ C5
\* The add_connect calls of chain q (0..3) of the candidate at position k.
ChainCalls(t, k, q) ==
    LET W == Words(th[t].candidates[k])
        first == 4 * TotalWords(SubSeq(th[t].candidates, 1, k - 1)) + q * W
    IN  SubSeq(th[t].connects, first + 1, first + W)

\* W calls that lead from state `from_state` to state `to_state` through W-1
\* distinct auxiliary states.
IsChain(calls, W, from_state, to_state) ==
    /\ Len(calls) = W
    /\ calls[1][1] = from_state
    /\ calls[W][2] = to_state
    /\ \A m \in 1 .. (W - 1) : calls[m][2] = calls[m + 1][1] /\ calls[m][2] >= 8
    /\ Cardinality({ calls[m][2] : m \in 1 .. (W - 1) }) = W - 1

\* C5: the returned state count is 8 plus the auxiliary states consumed;
\* a candidate of W words (1 <= W <= 3) wires four chains of W calls, each
\* through W-1 auxiliary states: 0 to tier 1, tier 2 to 7 and two from
\* tier 1 to tier 2; the returned candidate count is the length of the list.
C5_StateCount ==
    \A t \in Threads :
        ( /\ Returned(t, "cbs")
          /\ \A k \in 1 .. Len(th[t].candidates) :
                Words(th[t].candidates[k]) \in 1 .. 3 )
        => /\ StateCount(t) = 8 + 4 * (TotalWords(th[t].candidates)
                                         - Len(th[t].candidates))
           /\ CandidateCount(t) = Len(th[t].candidates)
           /\ Len(th[t].connects) = 4 * TotalWords(th[t].candidates)
           /\ \A k \in 1 .. Len(th[t].candidates) :
                LET W == Words(th[t].candidates[k]) IN
                /\ IsChain(ChainCalls(t, k, 0), W, 0, k)
                /\ IsChain(ChainCalls(t, k, 1), W, k + 3, 7)
                /\ \A q \in 2 .. 3 :
                     \E a \in 1 .. 3, b \in 4 .. 6 :
                        IsChain(ChainCalls(t, k, q), W, a, b)
           /\ th[t].candidates = << "wood burning stove" >>
                => StateCount(t) = 16 /\ CandidateCount(t) = 1
           /\ (Len(th[t].candidates) = 2 /\ SingleWordList(th[t].candidates))
                => StateCount(t) = 8 /\ CandidateCount(t) = 2

\* The build for the single three-word candidate has returned.
C5_Witness ==
    \E t \in Threads :
        /\ Returned(t, "cbs")
        /\ th[t].candidates = << "wood burning stove" >>
        /\ StateCount(t) = 16

\* ------------------------------------------------------------------ C6
\* The state indices at or above 8 that the add_connect calls of t name.
AuxUsed(t) ==
    { x \in UNION { { c[1], c[2] } : c \in Range(th[t].connects) } : x >= 8 }

\* C6 as stated: the returned tensor has shape [1][N][N][V] with N the
\* returned state count.
C6_Claim ==
    \A t \in Threads :
        (Returned(t, "cbs") \/ Returned(t, "free"))
        => Tensor(t).size = StateCount(t) /\ Tensor(t).vocab = vocab_size

\* C6 amended: the tensor returned by the phrase automaton builder has shape
\* [1][26][26][V] whatever the candidates; the returned state count is 8
\* plus the auxiliary states consumed, and the states from the returned
\* count up to 25 have their self-loops only and are the target of no
\* transition.  (The null builder's tensor has one state, its state count.)
C6_Amended ==
    \A t \in Threads :
        /\ Returned(t, "cbs") =>
            /\ Tensor(t).size = 26
            /\ Tensor(t).vocab = vocab_size
            /\ StateCount(t) = 8 + Cardinality(AuxUsed(t))
            /\ \A x \in Tensor(t).ones :
                 (x[1] >= StateCount(t) \/ x[2] >= StateCount(t))
                    => x[1] = x[2]
            /\ \A s \in StateCount(t) .. 25, w \in Tokens :
                 << s, s, w >> \in Tensor(t).ones
        /\ Returned(t, "free") =>
            Tensor(t).size = 1 /\ StateCount(t) = 1

\* A build that consumed auxiliary states, but not all 18, has returned.
C6_Witness ==
    \E t \in Threads :
        /\ Returned(t, "cbs")
        /\ StateCount(t) > 8
        /\ StateCount(t) < Tensor(t).size

\* ------------------------------------------------------------------ C7
\* What C7 says of one call add_connect(from, to, tokens), read in arr.
Forced(arr, call) ==
    \A w \in Range(call[3]) :
        /\ << call[1], call[1], w >> \notin arr.ones
        /\ << call[1], call[2], w >> \in arr.ones

\* C7 as stated: for every add_connect(from, to, tokens) call of a build and
\* every token of it, [from][from][token] is 0 and [from][to][token] is 1
\* right after the call (the array is the same until the build's next call),
\* and both entries have these values in the returned tensor.
C7_Claim ==
    \A t \in Threads :
        (th[t].kind = "cbs" /\ th[t].connects # << >>)
        => /\ Forced(heap[M["cbs"]], th[t].connects[Len(th[t].connects)])
           /\ Returned(t, "cbs")
                => \A c \in Range(th[t].connects) : Forced(Tensor(t), c)

\* ------------------------------------------------------------------ C8
\* The tokens passed to an add_connect call of t with source state s.
ConnectedFrom(t, s) ==
    UNION { Range(c[3]) : c \in { x \in Range(th[t].connects) : x[1] = s } }

\* C8: in the tensor returned by any build, every state s keeps its
\* self-loop, and has no other transition, on every token that was passed
\* to no add_connect call with source s.
C8_SelfLoop ==
    \A t \in Threads :
        (Returned(t, "cbs") \/ Returned(t, "free"))
        => \A s \in 0 .. (Tensor(t).size - 1) :
             \A w \in (0 .. (Tensor(t).vocab - 1)) \ ConnectedFrom(t, s) :
                /\ << s, s, w >> \in Tensor(t).ones
                /\ \A u \in 0 .. (Tensor(t).size - 1) :
                      u # s => << s, u, w >> \notin Tensor(t).ones

\* A build that connected some tokens out of state 0, and left others, has
\* returned.
C8_Witness ==
    \E t \in Threads :
        /\ Returned(t, "cbs")
        /\ ConnectedFrom(t, 0) # {}
        /\ \E w \in Tokens \ ConnectedFrom(t, 0) :
              << 0, 0, w >> \in Tensor(t).ones

\* ------------------------------------------------------------------ C9
\* The calls of t that lead into, and out of, state a.
Incoming(t, a) == { k \in 1 .. Len(th[t].connects) : th[t].connects[k][2] = a }

Outgoing(t, a) == { k \in 1 .. Len(th[t].connects) : th[t].connects[k][1] = a }

\* C9: within one build, auxiliary indices start at 8 and no chain uses an
\* auxiliary index of another chain: at any moment an auxiliary state has at
\* most one incoming and one outgoing chain edge, and when the build returns
\* the auxiliary states are 8 .. count-1, each with exactly one incoming and
\* one outgoing edge.
C9_NoCollision ==
    \A t \in Threads :
        th[t].kind = "cbs" =>
            /\ \A a \in AuxUsed(t) :
                 /\ a >= 8
                 /\ a < th[t].start_additional_index + 2
                 /\ Cardinality(Incoming(t, a)) <= 1
                 /\ Cardinality(Outgoing(t, a)) <= 1
            /\ Returned(t, "cbs") =>
                 /\ AuxUsed(t) = 8 .. (StateCount(t) - 1)
                 /\ \A a \in AuxUsed(t) :
                      /\ Cardinality(Incoming(t, a)) = 1
                      /\ Cardinality(Outgoing(t, a)) = 1

\* A build with two multi-word candidates has returned.
C9_Witness ==
    \E t \in Threads :
        /\ Returned(t, "cbs")
        /\ \E k, n \in 1 .. Len(th[t].candidates) :
              /\ k # n
              /\ Words(th[t].candidates[k]) = 2
              /\ Words(th[t].candidates[n]) = 3
        /\ Cardinality(AuxUsed(t)) = 12

\* ----------------------------------------------------------------- C10
\* C10: the null automaton builder returns, for any image id, a tensor of
\* exactly one state that self-loops on every token, state count 1 and
\* candidate count 0.
C10_NullAutomaton ==
    \A t \in Threads :
        Returned(t, "free") =>
            /\ th[t].image_id \in ImageIds
            /\ Tensor(t).size = 1
            /\ Tensor(t).vocab = output_size
            /\ Tensor(t).ones = { << 0, 0, w >> : w \in 0 .. (output_size - 1) }
            /\ StateCount(t) = 1
            /\ CandidateCount(t) = 0

\* A call of the null builder for the last image id has returned.
C10_Witness ==
    \E t \in Threads :
        /\ Returned(t, "free")
        /\ th[t].image_id = MaxImageId
        /\ << 0, 0, 0 >> \in Tensor(t).ones

\* ----------------------------------------------------------------- C11
\* C11 as stated: a build whose candidate list has more than 3 phrases
\* returns no tensor.
C11_Claim ==
    \A t \in Threads : Returned(t, "cbs") => Len(th[t].candidates) <= 3

\* ----------------------------------------------------------------- C12
\* Every candidate of the list has one to three words.
AllWired(cands) == \A k \in 1 .. Len(cands) : Words(cands[k]) \in 1 .. 3

\* The end points << from, to >> of the two tier-1 to tier-2 chains of the
\* candidate at position k.
Tier12(t, k) ==
    { << ChainCalls(t, k, q)[1][1],
         ChainCalls(t, k, q)[Words(th[t].candidates[k])][2] >> : q \in 2 .. 3 }

\* C12 as stated: candidate 0 leads from state 3 to 6 and from state 2 to 5,
\* candidate 1 from 1 to 6 and from 3 to 4, candidate 2 from 1 to 5 and from
\* 2 to 4.  (k is the candidate index plus 1.)
C12_Claim ==
    \A t \in Threads :
        (Returned(t, "cbs") /\ AllWired(th[t].candidates))
        => \A k \in 1 .. Len(th[t].candidates) :
              Tier12(t, k) = CASE k = 1 -> { << 3, 6 >>, << 2, 5 >> }
                               [] k = 2 -> { << 1, 6 >>, << 3, 4 >> }
                               [] k = 3 -> { << 1, 5 >>, << 2, 4 >> }

\* C12 amended: candidate 0 leads from state 3 to 5 and from state 2 to 6,
\* candidate 1 from 1 to 6 and from 3 to 4, candidate 2 from 1 to 5 and from
\* 2 to 4; no candidate has a chain leaving its own tier-1 state.
C12_Amended ==
    \A t \in Threads :
        (Returned(t, "cbs") /\ AllWired(th[t].candidates))
        => \A k \in 1 .. Len(th[t].candidates) :
              /\ Tier12(t, k) = CASE k = 1 -> { << 3, 5 >>, << 2, 6 >> }
                                  [] k = 2 -> { << 1, 6 >>, << 3, 4 >> }
                                  [] k = 3 -> { << 1, 5 >>, << 2, 4 >> }
              /\ \A q \in 2 .. 3 : ChainCalls(t, k, q)[1][1] # k

\* A build of three candidates, the first of them of two words, has returned.
C12_Witness ==
    \E t \in Threads :
        /\ Returned(t, "cbs")
        /\ Len(th[t].candidates) = 3
        /\ AllWired(th[t].candidates)
        /\ Words(th[t].candidates[1]) = 2
        /\ << 3, 5 >> \in Tier12(t, 1)

\* ----------------------------------------------------------------- C13
\* The candidates (positions in the list) one of whose tokens is tok.
Consumes(cands, tok) ==
    { k \in 1 .. Len(cands) : tok \in Range(get_word_set(cands[k])) }

\* One more token consumed from each pair << state, consumed candidates >>.
StepPairs(arr, cands, P) ==
    UNION { { << u, p[2] \cup Consumes(cands, tok) >> :
                u \in Delta(arr, { p[1] }, tok) } :
            p \in P, tok \in 0 .. (arr.vocab - 1) }

\* Every pair << state, consumed candidates >> some token sequence leads to.
RECURSIVE PairsFrom(_, _, _)
PairsFrom(arr, cands, P) ==
    LET Q == P \cup StepPairs(arr, cands, P)
    IN  IF Q = P THEN P ELSE PairsFrom(arr, cands, Q)

\* The lattice state that stands for the set S of consumed candidates.
Encode(S) ==
    CASE S = { } -> 0
      [] Cardinality(S) = 1 -> CHOOSE k \in S : TRUE
      [] Cardinality(S) = 2 -> 3 + (CHOOSE k \in 1 .. 3 : k \notin S)
      [] S = 1 .. 3 -> 7

DisjointGroups(cands) ==
    \A a, b \in 1 .. Len(cands) :
        a # b => Range(get_word_set(cands[a])) \cap Range(get_word_set(cands[b])) = { }

\* C13: for three single-word candidates with pairwise disjoint non-empty
\* groups, the state after any token sequence from state 0 is fixed by the
\* set S of candidates with a consumed token: 0 for the empty set, i+1 for
\* {i}, i+4 when candidate i alone is missing, 7 for all three; every one of
\* the eight sets occurs.
C13_StateOfSet ==
    \A t \in Threads :
        ( /\ Returned(t, "cbs")
          /\ Len(th[t].candidates) = 3
          /\ SingleWordList(th[t].candidates)
          /\ DisjointGroups(th[t].candidates) )
        => LET P == PairsFrom(Tensor(t), th[t].candidates, { << 0, { } >> })
           IN  /\ \A p \in P : p[1] = Encode(p[2])
               /\ { p[2] : p \in P } = SUBSET (1 .. 3)

\* A build of three single-word candidates with disjoint groups has returned,
\* and consuming candidates 2 and 0 leaves it in state 5.
C13_Witness ==
    \E t \in Threads :
        /\ Returned(t, "cbs")
        /\ th[t].candidates = << "dog", "table", "bed" >>
        /\ Run(Tensor(t), { 0 }, << 8, 0, 3 >>) = { 5 }

\* ----------------------------------------------------------------- C14
\* The word groups of a phrase, as sets of tokens, in phrase order.
Groups(phrase) ==
    [m \in 1 .. Words(phrase) |-> Range(get_word_set(split(phrase)[m]))]

\* toks holds one token of each group at consecutive positions, in order.
Consecutive(toks, G) ==
    \E first \in 1 .. (Len(toks) - Len(G) + 1) :
        \A m \in 1 .. Len(G) : toks[first + m - 1] \in G[m]

\* The token sequences of lengths lo to hi.
TokenSeqs(lo, hi) == UNION { [1 .. n -> Tokens] : n \in lo .. hi }

\* The candidates of a build that have two or three words, all of them known.
MultiWord(t) ==
    { k \in 1 .. Len(th[t].candidates) :
        /\ Words(th[t].candidates[k]) \in 2 .. 3
        /\ \A m \in 1 .. Words(th[t].candidates[k]) :
              Groups(th[t].candidates[k])[m] # { } }

\* C14 as stated: every token sequence (here: of at most one token more than
\* the phrase has words) that drives the automaton from state 0 to the tier-1
\* state of a multi-word candidate holds the words of the phrase at
\* consecutive positions; a sequence with an unrelated token between two
\* words of the phrase does not reach the tier-1 state.
C14_Claim ==
    \A t \in Threads :
        (Returned(t, "cbs") /\ Len(th[t].candidates) <= 3)
        => \A k \in MultiWord(t) :
              \A toks \in TokenSeqs(2, Words(th[t].candidates[k]) + 1) :
                 k \in Run(Tensor(t), { 0 }, toks)
                 => Consecutive(toks, Groups(th[t].candidates[k]))

\* One more token consumed from each pair << state, m >>, m being the number
\* of leading words of the phrase found so far, in order, among the tokens.
StepOrdered(arr, G, P) ==
    UNION { { << u, IF p[2] < Len(G) /\ tok \in G[p[2] + 1]
                    THEN p[2] + 1 ELSE p[2] >> :
                u \in Delta(arr, { p[1] }, tok) } :
            p \in P, tok \in 0 .. (arr.vocab - 1) }

RECURSIVE OrderedFrom(_, _, _)
OrderedFrom(arr, G, P) ==
    LET Q == P \cup StepOrdered(arr, G, P)
    IN  IF Q = P THEN P ELSE OrderedFrom(arr, G, Q)

\* One token of each group in order, with the token x after the first `gap`
\* of them.
WithGap(G, gap, x) ==
    { SubSeq(toks, 1, gap) \o << x >> \o SubSeq(toks, gap + 1, Len(G)) :
        toks \in { f \in [1 .. Len(G) -> Tokens] :
                     \A m \in 1 .. Len(G) : f[m] \in G[m] } }

Unrelated(G) == Tokens \ UNION { G[m] : m \in 1 .. Len(G) }

\* C14 amended: every token sequence, of any length, that drives the
\* automaton from state 0 to the tier-1 state of a multi-word candidate holds
\* one token of each word group of the phrase in phrase order, but not
\* necessarily at consecutive positions: a sequence with an unrelated token
\* between two words of the phrase reaches the tier-1 state as well.
C14_Amended ==
    \A t \in Threads :
        (Returned(t, "cbs") /\ Len(th[t].candidates) <= 3)
        => \A k \in MultiWord(t) :
              LET G == Groups(th[t].candidates[k]) IN
              /\ \A p \in OrderedFrom(Tensor(t), G, { << 0, 0 >> }) :
                    p[1] = k => p[2] = Len(G)
              /\ \A gap \in 1 .. (Len(G) - 1), x \in Unrelated(G) :
                    \A toks \in WithGap(G, gap, x) :
                       k \in Run(Tensor(t), { 0 }, toks)

\* The build for "dog bed" alone has returned, and dog, salt, bed leads from
\* state 0 to state 1.
C14_Witness ==
    \E t \in Threads :
        /\ Returned(t, "cbs")
        /\ th[t].candidates = << "dog bed" >>
        /\ Run(Tensor(t), { 0 }, << 2, 9, 8 >>) = { 1 }

\* ----------------------------------------------------------------- C15
\* A word none of whose surface forms is in the vocabulary.
UnknownWord(w) ==
    \A f \in Range(IF w \in DOMAIN oi_word_form THEN oi_word_form[w] ELSE << w >>) :
        f \notin Range(index_to_token)

\* The pairs << k, m >>: word m of candidate k is unknown.
UnknownAt(cands) ==
    { km \in (1 .. Len(cands)) \X (1 .. 3) :
        /\ km[2] <= Words(cands[km[1]])
        /\ UnknownWord(split(cands[km[1]])[km[2]]) }

KnownCalls(calls) == SelectSeq(calls, LAMBDA c : c[3] # << >>)

\* The automaton with only the states of Q.
Restrict(arr, Q) ==
    [arr EXCEPT !.ones = { x \in arr.ones : x[1] \in Q /\ x[2] \in Q }]

ChainStates(calls) ==
    { calls[m][1] : m \in 1 .. Len(calls) } \cup { calls[m][2] : m \in 1 .. Len(calls) }

\* The end points of the tier-1 to tier-2 chains of the candidate at
\* position k of the list.
Tier12Table(k) ==
    CASE k = 1 -> { << 3, 5 >>, << 2, 6 >> }
      [] k = 2 -> { << 1, 6 >>, << 3, 4 >> }
      [] k = 3 -> { << 1, 5 >>, << 2, 4 >> }

AllKnown(phrase) == \A m \in 1 .. Words(phrase) : Groups(phrase)[m] # { }

\* The token sequences with one token of each group, in order.
InOrder(G) ==
    { f \in [1 .. Len(G) -> Tokens] : \A m \in 1 .. Len(G) : f[m] \in G[m] }

\* The words of the candidates that have one to three words.
RECURSIVE WiredWords(_)
WiredWords(cands) ==
    IF cands = << >> THEN 0
    ELSE (IF Words(Head(cands)) \in 1 .. 3 THEN Words(Head(cands)) ELSE 0)
         + WiredWords(Tail(cands))

\* The calls of chain q (0 .. 3) of the candidate at position k, a candidate
\* of one to three words, whatever the other candidates are.
ChainOf(t, k, q) ==
    LET W == Words(th[t].candidates[k])
        first == 4 * WiredWords(SubSeq(th[t].candidates, 1, k - 1)) + q * W
    IN  SubSeq(th[t].connects, first + 1, first + W)

\* C16 as stated: for a candidate of W words, W >= 1 and W > 3 included, the
\* builder wires a chain of W connects through W-1 fresh auxiliary states
\* from state 0 to the tier-1 state i+1 and from i+4 to 7, so that consuming
\* the W words in order reaches the tier-1 state.
C16_Claim ==
    \A t \in Threads :
        (Returned(t, "cbs") /\ Len(th[t].candidates) <= 3)
        => /\ Len(th[t].connects) = 4 * TotalWords(th[t].candidates)
           /\ StateCount(t) = 8 + 4 * (TotalWords(th[t].candidates)
                                         - Len(th[t].candidates))
           /\ \A k \in 1 .. Len(th[t].candidates) :
                 AllKnown(th[t].candidates[k])
                 => \A toks \in InOrder(Groups(th[t].candidates[k])) :
                       k \in Run(Tensor(t), { 0 }, toks)

\* C16 amended: for a candidate of W words with 1 <= W <= 3 the builder wires
\* a chain of W connects through W-1 fresh auxiliary states from state 0 to
\* the tier-1 state i+1 and from i+4 to 7, so that consuming the W words in
\* order reaches the tier-1 state; for a candidate of more than 3 words the
\* builder makes no call and takes no auxiliary state, and the tier-1 state
\* of that candidate is reached by no token sequence.
C16_Amended ==
    \A t \in Threads :
        (Returned(t, "cbs") /\ Len(th[t].candidates) <= 3)
        => /\ Len(th[t].connects) = 4 * WiredWords(th[t].candidates)
           /\ StateCount(t) = 8 + AuxTotal(th[t].candidates)
           /\ CandidateCount(t) = Len(th[t].candidates)
           /\ \A k \in 1 .. Len(th[t].candidates) :
                 LET W == Words(th[t].candidates[k]) IN
                 IF W \in 1 .. 3
                 THEN /\ IsChain(ChainOf(t, k, 0), W, 0, k)
                      /\ IsChain(ChainOf(t, k, 1), W, k + 3, 7)
                      /\ \A q \in 0 .. 3 :
                            \A a \in { x \in ChainStates(ChainOf(t, k, q)) : x >= 8 } :
                               /\ Cardinality(Incoming(t, a)) = 1
                               /\ Cardinality(Outgoing(t, a)) = 1
                      /\ AllKnown(th[t].candidates[k])
                            => \A toks \in InOrder(Groups(th[t].candidates[k])) :
                                  k \in Run(Tensor(t), { 0 }, toks)
                 ELSE /\ \A c \in 1 .. Len(th[t].connects) : th[t].connects[c][2] # k
                      /\ k \notin Reachable(Tensor(t), { 0 })

\* A build with a three-word and a four-word candidate has returned: the
\* three words in order lead to the tier-1 state 1, and no call was made for
\* the second candidate.
C16_Witness ==
    \E t \in Threads :
        /\ Returned(t, "cbs")
        /\ th[t].candidates = << "salt and pepper", "dog bed and table" >>
        /\ Run(Tensor(t), { 0 }, << 9, 10, 11 >>) = { 1 }
        /\ Len(th[t].connects) = 12
        /\ StateCount(t) = 16

\* ----------------------------------------------------------------- C17
\* The fixed states that encode a subset of the K present candidates.
Encoding(K) ==
    CASE K = 0 -> { 0 }
      [] K = 1 -> { 0, 1 }
      [] K = 2 -> { 0, 1, 2, 6 }

\* The chains << k, q >> of a build: chain q of the candidate at position k.
Chains(t) ==
    { kq \in (1 .. Len(th[t].candidates)) \X (0 .. 3) :
        Words(th[t].candidates[kq[1]]) \in 1 .. 3 }

\* C17: with K < 3 candidates, the fixed states reachable from state 0 encode
\* subsets of the K candidates: states 0 and 1 for K = 1, states 0, 1, 2 and
\* 6 for K = 2 (all of them when every word is known); a reachable auxiliary
\* state lies on a chain between two of these states.
C17_Unreachable ==
    \A t \in Threads :
        (Returned(t, "cbs") /\ Len(th[t].candidates) < 3)
        => LET K == Len(th[t].candidates)
               R == Reachable(Tensor(t), { 0 })
           IN  /\ R \cap (0 .. 7) \subseteq Encoding(K)
               /\ (\A k \in 1 .. K : Words(th[t].candidates[k]) \in 1 .. 3
                                     /\ AllKnown(th[t].candidates[k]))
                     => R \cap (0 .. 7) = Encoding(K)
               /\ \A a \in R \ (0 .. 7) :
                     \E kq \in Chains(t) :
                        LET calls == ChainOf(t, kq[1], kq[2]) IN
                        /\ a \in ChainStates(calls)
                        /\ calls[1][1] \in Encoding(K)
                        /\ calls[Len(calls)][2] \in Encoding(K)

\* A build of two candidates has returned, one of them of two words: states
\* 0, 1, 2 and 6 and the auxiliary states 8 and 10 are reachable from state 0.
C17_Witness ==
    \E t \in Threads :
        /\ Returned(t, "cbs")
        /\ th[t].candidates = << "dog bed", "table" >>
        /\ Reachable(Tensor(t), { 0 }) = { 0, 1, 2, 6, 8, 10 }

\* ----------------------------------------------------------------- C18
\* C18 as stated: for a list of at most 3 candidates, each of one to three
\* words with non-empty word groups, every state index the build passes to
\* add_connect is below 26 and the returned state count is at most 26: the
\* build never fails on, or writes at, an index outside the tensor.
C18_Claim ==
    \A t \in Threads :
        ( /\ th[t].kind = "cbs"
          /\ Len(th[t].candidates) <= 3
          /\ \A k \in 1 .. Len(th[t].candidates) :
                /\ Words(th[t].candidates[k]) \in 1 .. 3
                /\ AllKnown(th[t].candidates[k]) )
        => /\ th[t].pc # "raised"
           /\ th[t].start_additional_index <= state_size
           /\ \A c \in 1 .. Len(th[t].connects) :
                 th[t].connects[c][1] < state_size /\ th[t].connects[c][2] < state_size
           /\ Returned(t, "cbs") => StateCount(t) <= state_size

\* ----------------------------------------------------------------- C19
\* The tier of a fixed state: the number of candidates it stands for.
Tier(s) == CASE s = 0 -> 0 [] s \in 1 .. 3 -> 1 [] s \in 4 .. 6 -> 2 [] s = 7 -> 3

\* The states reached from S by any token sequence, as the least set that
\* holds S and is closed under every token.
RECURSIVE Closure(_, _)
Closure(arr, S) ==
    LET Q == S \cup { x[2] : x \in { y \in arr.ones : y[1] \in S } }
    IN  IF Q = S THEN S ELSE Closure(arr, Q)

\* C19: in a tensor built from at most 3 candidates the terminal state 7 is
\* the source of no add_connect call, has its self-loop on every token and no
\* other transition, and no transition or token sequence leads from a fixed
\* state to a fixed state of a lower tier.
C19_Absorbing ==
    \A t \in Threads :
        (Returned(t, "cbs") /\ Len(th[t].candidates) <= 3)
        => /\ Outgoing(t, terminal_state) = { }
           /\ \A w \in Tokens : << terminal_state, terminal_state, w >> \in Tensor(t).ones
           /\ \A x \in Tensor(t).ones : x[1] = terminal_state => x[2] = terminal_state
           /\ Closure(Tensor(t), { terminal_state }) = { terminal_state }
           /\ \A x \in Tensor(t).ones :
                 (x[1] < 8 /\ x[2] < 8) => Tier(x[2]) >= Tier(x[1])
           /\ \A s \in 0 .. 7 :
                 \A u \in Closure(Tensor(t), { s }) \cap (0 .. 7) : Tier(u) >= Tier(s)

\* A build of three candidates has returned; the words of the three lead
\* from state 0 to state 7, and a further token leaves the automaton there.
C19_Witness ==
    \E t \in Threads :
        /\ Returned(t, "cbs")
        /\ th[t].candidates = << "dog bed", "table", "salt and pepper" >>
        /\ Run(Tensor(t), { 0 }, << 2, 8, 4, 9, 10, 11 >>) = { 7 }
        /\ Run(Tensor(t), { 7 }, << 2 >>) = { 7 }

\* ----------------------------------------------------------------- C20
\* The words << k, m >> of a candidate list: word m of the candidate at
\* position k.
WordsOf(cands) ==
    UNION { { << k, m >> : m \in 1 .. Words(cands[k]) } : k \in 1 .. Len(cands) }

\* The token sets of all words of all candidates are pairwise disjoint.
DisjointWords(cands) ==
    \A a, b \in WordsOf(cands) :
        a # b => Groups(cands[a[1]])[a[2]] \cap Groups(cands[b[1]])[b[2]] = { }

\* C20: when the token sets of all words of all candidates are pairwise
\* disjoint, the built automaton is deterministic and total: every state of
\* the tensor, allocated or not, has exactly one successor on every token.
C20_Deterministic ==
    \A t \in Threads :
        (Returned(t, "cbs") /\ DisjointWords(th[t].candidates))
        => \A s \in 0 .. (Tensor(t).size - 1), tok \in Tokens :
              Cardinality(Delta(Tensor(t), { s }, tok)) = 1

\* A build of three candidates with disjoint words has returned; in state 0
\* the token of "wood" has the first auxiliary state as its one successor.
C20_Witness ==
    \E t \in Threads :
        /\ Returned(t, "cbs")
        /\ th[t].candidates = << "wood burning stove", "dog bed", "table" >>
        /\ DisjointWords(th[t].candidates)
        /\ StateCount(t) = 20
        /\ Delta(Tensor(t), { 0 }, 6) = { 8 }

====
